---- MODULE Spec2Model ----
(***************************************************************************)
(* Model of streamlit_app.py: the two CSV normalisers (load_csv for the    *)
(* history file, the forecast branch of load_history_and_forecast), and    *)
(* one page render: load, derive min/max history year, outer merge on      *)
(* Year, tag rows, draw the chart, show the tables and offer the cleaned   *)
(* CSVs for download.  A downloaded pair of files can be put back in       *)
(* place of the inputs, after which the page renders again.                *)
(*                                                                         *)
(* A field of a CSV file is a record [t, v]:                               *)
(*   t = "num"   the digits of the number v                                *)
(*   t = "empty" nothing between the separators                            *)
(*   t = "date", "tzdate", "junk"  a text, as below                        *)
(* A cell of a data frame is a record [t, v]:                              *)
(*   t = "int"   a number v (a value, or a numeric year)                   *)
(*   t = "numstr" the string of the digits of v (a number read into a     *)
(*               column that also holds text)                              *)
(*   t = "date"  the string "v-01-01" (an ISO date in year v)              *)
(*   t = "tzdate" the string "v-01-01T00:00:00+0r:00", a timestamp in year *)
(*               v whose UTC offset differs from row to row                *)
(*   t = "junk"  the string "abc" (no date, no number)                     *)
(*   t = "nan"   a missing cell                                            *)
(* A frame is [columns, rows]: the column labels in order (labels may      *)
(* repeat after a rename) and the rows, each a sequence of cells.          *)
(***************************************************************************)
EXTENDS Integers, Sequences, FiniteSets, TLC

VARIABLES histFile, fcFile, pc, hist, hist_df, fc_df, error,
          min_hist_year, max_hist_year, merged_df, shown,
          prev_hist, prev_fc

vars == <<histFile, fcFile, pc, hist, hist_df, fc_df, error,
          min_hist_year, max_hist_year, merged_df, shown,
          prev_hist, prev_fc>>

\* Largest number of rows of an input file.
MaxRows == 2

Years == {2020, 2021, 2022}

NumField(n) == [t |-> "num", v |-> n]
EmptyField == [t |-> "empty", v |-> 0]
IntCell(n) == [t |-> "int", v |-> n]
DateCell(y) == [t |-> "date", v |-> y]
TzCell(y) == [t |-> "tzdate", v |-> y]
JunkCell == [t |-> "junk", v |-> 0]
NaN == [t |-> "nan", v |-> 0]
TagCell(s) == [t |-> s, v |-> 0]

NoFrame == [columns |-> <<>>, rows |-> <<>>]
NoFile == [exists |-> FALSE, columns |-> <<>>, rows |-> <<>>]
NoneCol == "<None>"

----------------------------------------------------------------------------
(* Column-name handling                                                    *)

\* c.lower().strip() on the column names that occur in the input files.
LowerStrip(c) ==
    CASE c = "Year" -> "year"
      [] c = "Date" -> "date"
      [] c = " Time " -> "time"
      [] c = "Period" -> "period"
      [] c = "Rate" -> "rate"
      [] c = "Value" -> "value"
      [] c = "Inflation_YoY" -> "inflation_yoy"
      [] c = "Inflation_YoY.1" -> "inflation_yoy.1"
      [] c = "Forecast" -> "forecast"
      [] c = "Forecast.1" -> "forecast.1"
      [] c = "Year.1" -> "year.1"
      [] c = "A" -> "a"
      [] c = "B" -> "b"
      [] OTHER -> c

\* One assignment d[k] = c of a Python dict kept as a sequence of entries:
\* a new key is appended, an existing key keeps its place and takes the
\* new value.
DictPut(d, k, c) ==
    IF \E i \in DOMAIN d : d[i].k = k
    THEN [i \in DOMAIN d |-> IF d[i].k = k THEN [k |-> k, c |-> c] ELSE d[i]]
    ELSE Append(d, [k |-> k, c |-> c])

RECURSIVE ColsFrom(_, _, _)
ColsFrom(columns, i, d) ==
    IF i > Len(columns) THEN d
    ELSE ColsFrom(columns, i + 1, DictPut(d, LowerStrip(columns[i]), columns[i]))

\* cols = {c.lower().strip(): c for c in df.columns}
cols(columns) == ColsFrom(columns, 1, <<>>)

\* next((d[k] for k in d if k in names), None)
FirstMatch(d, names) ==
    IF \E i \in DOMAIN d : d[i].k \in names
    THEN d[CHOOSE i \in DOMAIN d :
               /\ d[i].k \in names
               /\ \A j \in DOMAIN d : d[j].k \in names => i <= j].c
    ELSE NoneCol

\* df.rename(columns={old: new}): every column labelled old is relabelled.
Rename(df, old, new) ==
    [df EXCEPT !.columns =
        [i \in DOMAIN df.columns |->
            IF df.columns[i] = old THEN new ELSE df.columns[i]]]

Positions(df, name) == {i \in DOMAIN df.columns : df.columns[i] = name}

ColPos(df, name) == CHOOSE i \in DOMAIN df.columns : df.columns[i] = name

Column(df, name) == [r \in DOMAIN df.rows |-> df.rows[r][ColPos(df, name)]]

\* np.issubdtype(dtype, np.number): read_csv gives a column a numeric dtype
\* exactly when every cell is a number or missing.
IsNumeric(col) == \A r \in DOMAIN col : col[r].t \in {"int", "nan"}

\* pd.to_datetime(x, errors="coerce").dt.year of one cell of a string column.
ToYear(c) ==
    IF c.t \in {"date", "tzdate", "numstr"} THEN IntCell(c.v) ELSE NaN

\* pd.to_datetime(...).dt.year raises on a column of timestamps with mixed
\* UTC offsets (no single datetime dtype holds them).
ToDatetimeRaises(col) ==
    Cardinality({r \in DOMAIN col : col[r].t = "tzdate"}) >= 2

\* df[name] = pd.to_datetime(df[name], errors="coerce").dt.year
CoerceYear(df, name) ==
    [df EXCEPT !.rows =
        [r \in DOMAIN df.rows |->
            [j \in DOMAIN df.rows[r] |->
                IF j = ColPos(df, name) THEN ToYear(df.rows[r][j])
                ELSE df.rows[r][j]]]]

----------------------------------------------------------------------------
(* Sorting                                                                 *)

\* The order sort_values compares year cells in: numbers by value, strings
\* lexicographically (ISO dates by year, "abc" after every digit string).
SortKey(c) == IF c.t = "junk" THEN 10000 ELSE c.v

RECURSIVE AscendingSeq(_, _)
AscendingSeq(S, n) ==
    IF n = 0 THEN <<>>
    ELSE IF n \in S THEN Append(AscendingSeq(S, n - 1), n)
         ELSE AscendingSeq(S, n - 1)

\* Every arrangement of the indices S in non-decreasing key order: the
\* default sort kind (quicksort) leaves the order of equal keys unspecified.
RECURSIVE KeyOrders(_, _)
KeyOrders(S, keys) ==
    IF S = {} THEN {<<>>}
    ELSE UNION { { <<i>> \o s : s \in KeyOrders(S \ {i}, keys) } :
                 i \in {j \in S : \A k \in S :
                             SortKey(keys[j]) <= SortKey(keys[k])} }

\* nargsort: the non-missing keys sorted, the missing ones last in their
\* original order.
SortOrders(keys) ==
    LET nonNan == {i \in DOMAIN keys : keys[i].t # "nan"}
        nanIdx == AscendingSeq(DOMAIN keys \ nonNan, Len(keys))
    IN  { s \o nanIdx : s \in KeyOrders(nonNan, keys) }

Returned(df) == [exc |-> "", df |-> df]
Raised(e) == [exc |-> e, df |-> NoFrame]

\* df.sort_values("Year").reset_index(drop=True): the outcomes it can have.
SortValues(df) ==
    IF Cardinality(Positions(df, "Year")) # 1
    THEN {Raised("ValueError: label Year is not unique")}
    ELSE { Returned([df EXCEPT !.rows = [r \in DOMAIN o |-> df.rows[o[r]]]]) :
           o \in SortOrders(Column(df, "Year")) }

----------------------------------------------------------------------------
(* The normalisers                                                         *)

RECURSIVE RenameMatches(_, _, _, _, _)
\* for k in list(d): if k in candidates: df.rename(columns={d[k]: target})
RenameMatches(df, d, i, candidates, target) ==
    IF i > Len(d) THEN df
    ELSE RenameMatches(
             IF d[i].k \in candidates THEN Rename(df, d[i].c, target) ELSE df,
             d, i + 1, candidates, target)

\* if target not in df.columns and df.shape[1] == 2: rename the first
\* column that is not "Year" (IndexError when there is none).
Fallback(df, target) ==
    IF Positions(df, target) # {} \/ Len(df.columns) # 2 THEN Returned(df)
    ELSE LET others == {i \in DOMAIN df.columns : df.columns[i] # "Year"}
         IN  IF others = {} THEN Raised("IndexError: list index out of range")
             ELSE LET first == CHOOSE i \in others : \A j \in others : i <= j
                  IN  Returned(Rename(df, df.columns[first], target))

HistYearNames == {"year", "years", "date", "time", "period"}
value_candidates == {"inflation", "inflation_yoy", "headline_inflation",
                     "value", "rate", "yoy", "inflation_yoy_percent",
                     "inflation_yoy_%"}

FcYearNames == {"year", "years", "date", "period"}
f_candidates == {"forecast", "pred", "prediction", "yhat", "predicted"}

\* The label read_csv gives the second column of a repeated header name.
Dup1(c) ==
    CASE c = "Inflation_YoY" -> "Inflation_YoY.1"
      [] c = "Forecast" -> "Forecast.1"
      [] c = "Year" -> "Year.1"

\* read_csv's header: a name that occurred before gets the suffix ".1".
MangleDupes(columns) ==
    [i \in DOMAIN columns |->
        IF \E j \in 1..(i - 1) : columns[j] = columns[i]
        THEN Dup1(columns[i]) ELSE columns[i]]

\* read_csv's type inference: a column of numbers and empty fields is
\* numeric; in any other column the fields stay strings; an empty field is
\* missing in both.
ParseField(f, numeric) ==
    CASE f.t = "empty" -> NaN
      [] f.t = "num" -> IF numeric THEN IntCell(f.v) ELSE [t |-> "numstr", v |-> f.v]
      [] OTHER -> f

\* pd.read_csv(path)
read_csv(file) ==
    IF ~file.exists THEN Raised("FileNotFoundError")
    ELSE LET numeric(j) == \A r \in DOMAIN file.rows :
                               file.rows[r][j].t \in {"num", "empty"}
         IN  Returned([columns |-> MangleDupes(file.columns),
                       rows |-> [r \in DOMAIN file.rows |->
                                  [j \in DOMAIN file.rows[r] |->
                                     ParseField(file.rows[r][j], numeric(j))]]])

\* One field written by to_csv: a number as its digits, a missing cell as
\* nothing, a string as it is.
WriteCell(c) ==
    CASE c.t = "nan" -> EmptyField
      [] c.t \in {"int", "numstr"} -> NumField(c.v)
      [] OTHER -> c

\* df.to_csv(index=False), as the file a download of it is.
to_csv(df) ==
    [exists |-> TRUE, columns |-> df.columns,
     rows |-> [r \in DOMAIN df.rows |->
                [j \in DOMAIN df.rows[r] |-> WriteCell(df.rows[r][j])]]]

\* load_csv(path): the set of outcomes [exc, df] of the call.
load_csv(file) ==
    LET rd == read_csv(file)
        d == cols(rd.df.columns)
        year_col == FirstMatch(d, HistYearNames)
    IN  IF rd.exc # "" THEN {rd}
        ELSE IF year_col = NoneCol
        THEN {Raised("ValueError: Could not find a Year column")}
        ELSE LET ycol == Column(rd.df, year_col)
                 df1 == IF ~IsNumeric(ycol) /\ ~ToDatetimeRaises(ycol)
                        THEN CoerceYear(rd.df, year_col)
                        ELSE rd.df
                 df2 == Rename(df1, year_col, "Year")
                 df3 == RenameMatches(df2, d, 1, value_candidates, "Inflation_YoY")
                 fb == Fallback(df3, "Inflation_YoY")
             IN  IF fb.exc # "" THEN {fb} ELSE SortValues(fb.df)

\* The forecast branch of load_history_and_forecast.
load_forecast(file) ==
    LET rd == read_csv(file)
        fc_cols == cols(rd.df.columns)
        year_fc == FirstMatch(fc_cols, FcYearNames)
    IN  IF rd.exc # "" THEN {rd}
        ELSE IF year_fc = NoneCol
        THEN {Raised("ValueError: Forecast CSV must contain a Year column")}
        ELSE LET fc1 == Rename(rd.df, year_fc, "Year")
                 fc2 == RenameMatches(fc1, fc_cols, 1, f_candidates, "Forecast")
                 fb == Fallback(fc2, "Forecast")
             IN  IF fb.exc # "" THEN {fb} ELSE SortValues(fb.df)

----------------------------------------------------------------------------
(* Merge and tagging                                                       *)

\* The suffixes pd.merge gives a non-key label that both frames carry.
SuffixX(c) ==
    CASE c = "Forecast" -> "Forecast_x"
      [] c = "Inflation_YoY" -> "Inflation_YoY_x"
      [] c = "A" -> "A_x"
      [] c = "B" -> "B_x"

SuffixY(c) ==
    CASE c = "Forecast" -> "Forecast_y"
      [] c = "Inflation_YoY" -> "Inflation_YoY_y"
      [] c = "A" -> "A_y"
      [] c = "B" -> "B_y"

KeyRank(c) == IF c.t = "nan" THEN 100000 ELSE c.v

RECURSIVE SortedKeys(_)
SortedKeys(S) ==
    IF S = {} THEN <<>>
    ELSE LET m == CHOOSE c \in S : \A d \in S : KeyRank(c) <= KeyRank(d)
         IN  <<m>> \o SortedKeys(S \ {m})

\* The (left row, right row) pairs of one key; 0 stands for no row.
KeyBlock(lk, rk, k) ==
    LET L == AscendingSeq({i \in DOMAIN lk : lk[i] = k}, Len(lk))
        R == AscendingSeq({j \in DOMAIN rk : rk[j] = k}, Len(rk))
    IN  IF L = <<>> THEN [n \in DOMAIN R |-> <<0, R[n]>>]
        ELSE IF R = <<>> THEN [n \in DOMAIN L |-> <<L[n], 0>>]
        ELSE [n \in 1..(Len(L) * Len(R)) |->
                 <<L[((n - 1) \div Len(R)) + 1], R[((n - 1) % Len(R)) + 1]>>]

RECURSIVE JoinPairs(_, _, _, _)
JoinPairs(lk, rk, keys, i) ==
    IF i > Len(keys) THEN <<>>
    ELSE KeyBlock(lk, rk, keys[i]) \o JoinPairs(lk, rk, keys, i + 1)

\* The keys of the join: how="left" keeps the left frame's keys only.
LeftKeys(lk, rk) == {lk[i] : i \in DOMAIN lk}

\* The keys of the join: how="outer" keeps the keys of both frames.
JoinKeys(lk, rk) == {lk[i] : i \in DOMAIN lk} \cup {rk[j] : j \in DOMAIN rk}

\* pd.merge(l, r, on="Year", how="outer"), before the sort.
merge(l, r) ==
    LET ly == ColPos(l, "Year")
        ry == ColPos(r, "Year")
        lk == Column(l, "Year")
        rk == Column(r, "Year")
        rpos == AscendingSeq(DOMAIN r.columns \ {ry}, Len(r.columns))
        lnames == {l.columns[c] : c \in DOMAIN l.columns \ {ly}}
        rnames == {r.columns[c] : c \in DOMAIN r.columns \ {ry}}
        pairs == JoinPairs(lk, rk, SortedKeys(JoinKeys(lk, rk)), 1)
        lpart(p) == [c \in DOMAIN l.columns |->
                        IF p[1] # 0 THEN l.rows[p[1]][c]
                        ELSE IF c = ly THEN rk[p[2]] ELSE NaN]
        rpart(p) == [n \in DOMAIN rpos |->
                        IF p[2] # 0 THEN r.rows[p[2]][rpos[n]] ELSE NaN]
    IN  [columns |->
            [c \in DOMAIN l.columns |->
                IF c # ly /\ l.columns[c] \in rnames
                THEN SuffixX(l.columns[c]) ELSE l.columns[c]]
            \o [n \in DOMAIN rpos |->
                IF r.columns[rpos[n]] \in lnames
                THEN SuffixY(r.columns[rpos[n]]) ELSE r.columns[rpos[n]]],
         rows |-> [n \in DOMAIN pairs |-> lpart(pairs[n]) \o rpart(pairs[n])]]

\* The non-missing numbers of a column.
Numbers(col) == {col[r].v : r \in {q \in DOMAIN col : col[q].t = "int"}}

SetMin(S) == CHOOSE x \in S : \A y \in S : x <= y
SetMax(S) == CHOOSE x \in S : \A y \in S : x >= y

\* merged_df["Year"] < max_hist_year
TagStrict(year, maxYear) ==
    IF year.t = "int" /\ year.v < maxYear THEN "History" ELSE "Forecast"

\* np.where(merged_df["Year"] <= max_hist_year, "History", "Forecast") on
\* one row: a missing year compares false.
Tag(year, maxYear) ==
    IF year.t = "int" /\ year.v <= maxYear THEN "History" ELSE "Forecast"

\* merged_df["Set"] = ...
AddSet(df, maxYear) ==
    [columns |-> Append(df.columns, "Set"),
     rows |-> [r \in DOMAIN df.rows |->
                 Append(df.rows[r],
                        TagCell(Tag(df.rows[r][ColPos(df, "Year")], maxYear)))]]

----------------------------------------------------------------------------
(* Input files                                                             *)

\* The header rows the input files are drawn from.
Headers ==
    { <<"Year", "Inflation_YoY">>,
      <<"Year", "Forecast">>,
      <<"Date", "Rate">>,
      <<" Time ", "Forecast">>,
      <<"Period", "x">>,
      <<"A", "B">>,
      <<"Year", "A", "B">>,
      <<"Year", "Value", "Rate">>,
      <<"Year", "pred", "yhat">>,
      <<"time", "year", "value">>,
      <<"date", "Year">>,
      <<"Year", "Inflation_YoY", "Forecast">> }

\* The contents of a year column of n rows: numbers with gaps; or dates,
\* other text and gaps; or timestamps with a UTC offset.
YearColumns(n) ==
    [1..n -> {NumField(y) : y \in Years} \cup {EmptyField}]
    \cup [1..n -> {DateCell(y) : y \in Years} \cup {JunkCell, EmptyField}]
    \cup [1..n -> {TzCell(y) : y \in Years}]

NumericYearColumns(n) ==
    [1..n -> {NumField(y) : y \in Years} \cup {EmptyField}]

\* The position of the first year-like column of a header, 0 if none.
YearPos(h) ==
    LET S == {j \in DOMAIN h : LowerStrip(h[j]) \in HistYearNames}
    IN  IF S = {} THEN 0 ELSE SetMin(S)

\* The file with header h whose first year-like column holds yc; every
\* other field is a number that tells its row and column.
MakeFile(h, yc) ==
    [exists |-> TRUE, columns |-> h,
     rows |-> [i \in DOMAIN yc |->
                 [j \in DOMAIN h |->
                     IF j = YearPos(h) THEN yc[i] ELSE NumField(100 * j + i)]]]

AnyFiles ==
    UNION { { MakeFile(h, yc) : yc \in YearColumns(n) } :
            h \in Headers, n \in 1..MaxRows }

\* Files with numeric years, gaps and repetitions, of one or two rows.
PlainFiles(h) ==
    UNION { { MakeFile(h, yc) : yc \in NumericYearColumns(n) } : n \in 1..2 }

\* Files of one or two rows that give every row its own year.
SeriesFiles(h) ==
    { f \in PlainFiles(h) :
        /\ \A r \in DOMAIN f.rows : f.rows[r][1].t = "num"
        /\ \A r, q \in DOMAIN f.rows : f.rows[r][1] = f.rows[q][1] => r = q }

----------------------------------------------------------------------------
(* One page render                                                         *)

\* The two input files: any file in one role against a clean series in the
\* other, or two small files with gaps and repeated years.
Init ==
    /\ \/ /\ histFile \in AnyFiles \cup {NoFile}
          /\ fcFile \in SeriesFiles(<<"Year", "Forecast">>)
       \/ /\ histFile \in SeriesFiles(<<"Year", "Inflation_YoY">>)
          /\ fcFile \in AnyFiles \cup {NoFile}
       \/ /\ histFile \in PlainFiles(<<"Year", "Inflation_YoY">>)
          /\ fcFile \in PlainFiles(<<"Year", "Forecast">>)
    /\ pc = "load_csv"
    /\ hist = NoFrame
    /\ hist_df = NoFrame
    /\ fc_df = NoFrame
    /\ error = ""
    /\ min_hist_year = 0
    /\ max_hist_year = 0
    /\ merged_df = NoFrame
    /\ shown = {}
    /\ prev_hist = NoFrame
    /\ prev_fc = NoFrame

\* hist = load_csv(history_csv)
LoadHistory ==
    /\ pc = "load_csv"
    /\ \E r \in load_csv(histFile) :
         IF r.exc # ""
         THEN /\ pc' = "except"
              /\ error' = r.exc
              /\ hist' = hist
         ELSE /\ pc' = "load_forecast"
              /\ hist' = r.df
              /\ error' = error
    /\ UNCHANGED <<histFile, fcFile, hist_df, fc_df, min_hist_year,
                   max_hist_year, merged_df, shown, prev_hist, prev_fc>>

\* The forecast branch, and the return of load_history_and_forecast into
\* hist_df, fc_df.
LoadForecast ==
    /\ pc = "load_forecast"
    /\ \E r \in load_forecast(fcFile) :
         IF r.exc # ""
         THEN /\ pc' = "except"
              /\ error' = r.exc
              /\ UNCHANGED <<hist_df, fc_df>>
         ELSE /\ pc' = "derive"
              /\ hist_df' = hist
              /\ fc_df' = r.df
              /\ error' = error
    /\ UNCHANGED <<histFile, fcFile, hist, min_hist_year, max_hist_year,
                   merged_df, shown, prev_hist, prev_fc>>

\* except Exception as e: st.error(...); st.stop()
ShowErrorAndStop ==
    /\ pc = "except"
    /\ shown' = shown \cup {"error"}
    /\ pc' = "stopped"
    /\ UNCHANGED <<histFile, fcFile, hist, hist_df, fc_df, error,
                   min_hist_year, max_hist_year, merged_df,
                   prev_hist, prev_fc>>

\* min_hist_year = int(hist_df["Year"].min()), max_hist_year likewise:
\* int() raises on a missing value (no year at all) and on a string.
Derive ==
    /\ pc = "derive"
    /\ LET year == Column(hist_df, "Year")
       IN  IF IsNumeric(year) /\ Numbers(year) # {}
           THEN /\ min_hist_year' = SetMin(Numbers(year))
                /\ max_hist_year' = SetMax(Numbers(year))
                /\ pc' = "merge"
                /\ error' = error
           ELSE /\ pc' = "crashed"
                /\ error' = "ValueError: int()"
                /\ UNCHANGED <<min_hist_year, max_hist_year>>
    /\ UNCHANGED <<histFile, fcFile, hist, hist_df, fc_df, merged_df, shown,
                   prev_hist, prev_fc>>

\* merged_df = pd.merge(hist_df, fc_df, on="Year", how="outer")
\*                 .sort_values("Year")
\* pd.merge raises when one key column is numeric and the other holds strings.
Merge ==
    /\ pc = "merge"
    /\ IF IsNumeric(Column(fc_df, "Year"))
       THEN /\ \E r \in SortValues(merge(hist_df, fc_df)) : merged_df' = r.df
            /\ pc' = "tag"
            /\ error' = error
       ELSE /\ pc' = "crashed"
            /\ error' = "ValueError: merge on int64 and object columns"
            /\ merged_df' = merged_df
    /\ UNCHANGED <<histFile, fcFile, hist, hist_df, fc_df, min_hist_year,
                   max_hist_year, shown, prev_hist, prev_fc>>

\* merged_df["Set"] = np.where(...)
TagRows ==
    /\ pc = "tag"
    /\ merged_df' = AddSet(merged_df, max_hist_year)
    /\ pc' = "tab1"
    /\ UNCHANGED <<histFile, fcFile, hist, hist_df, fc_df, error,
                   min_hist_year, max_hist_year, shown, prev_hist, prev_fc>>

\* The last three elements of a sequence.
Tail3(s) == [i \in 1..(IF Len(s) < 3 THEN Len(s) ELSE 3) |->
                s[Len(s) - (IF Len(s) < 3 THEN Len(s) ELSE 3) + i]]

\* What stops the drawing of tab 1: hist_df["Inflation_YoY"] with no such
\* column; fc_df["Forecast"].tolist() on two such columns; int(y) of a
\* missing forecast year in an annotation.
Tab1Raises ==
    \/ Positions(hist_df, "Inflation_YoY") = {}
    \/ Cardinality(Positions(fc_df, "Forecast")) > 1
    \/ /\ Cardinality(Positions(fc_df, "Forecast")) = 1
       /\ \E i \in DOMAIN Tail3(Column(fc_df, "Year")) :
              Tail3(Column(fc_df, "Year"))[i].t = "nan"

\* Header and tab 1: the chart, the recent history and the forecast preview.
Tab1 ==
    /\ pc = "tab1"
    /\ IF Tab1Raises
       THEN /\ pc' = "crashed"
            /\ error' = "exception in tab 1"
            /\ shown' = shown
       ELSE /\ pc' = "tab2"
            /\ shown' = shown \cup {"chart"}
            /\ error' = error
    /\ UNCHANGED <<histFile, fcFile, hist, hist_df, fc_df, min_hist_year,
                   max_hist_year, merged_df, prev_hist, prev_fc>>

\* Tab 2: the three tables and the two download buttons.
Tab2 ==
    /\ pc = "tab2"
    /\ shown' = shown \cup {"tables", "downloads"}
    /\ pc' = "done"
    /\ UNCHANGED <<histFile, fcFile, hist, hist_df, fc_df, error,
                   min_hist_year, max_hist_year, merged_df,
                   prev_hist, prev_fc>>

\* The user saves both downloads (history_clean.csv, forecast_clean.csv)
\* over the two input files, when they differ from them, and the page
\* renders again.
Reimport ==
    /\ pc = "done"
    /\ to_csv(hist_df) # histFile \/ to_csv(fc_df) # fcFile
    /\ histFile' = to_csv(hist_df)
    /\ fcFile' = to_csv(fc_df)
    /\ prev_hist' = hist_df
    /\ prev_fc' = fc_df
    /\ pc' = "load_csv"
    /\ hist' = NoFrame
    /\ hist_df' = NoFrame
    /\ fc_df' = NoFrame
    /\ error' = ""
    /\ min_hist_year' = 0
    /\ max_hist_year' = 0
    /\ merged_df' = NoFrame
    /\ shown' = {}

Next ==
    \/ LoadHistory
    \/ LoadForecast
    \/ ShowErrorAndStop
    \/ Derive
    \/ Merge
    \/ TagRows
    \/ Tab1
    \/ Tab2
    \/ Reimport

Spec == Init /\ [][Next]_vars

----------------------------------------------------------------------------
(* Properties                                                              *)

HistLoaded == hist # NoFrame
FcLoaded == fc_df # NoFrame
Range(col) == {col[r] : r \in DOMAIN col}
Unique(col) == \A r, q \in DOMAIN col : col[r] = col[q] => r = q
HasCandidate(h, candidates) == \E j \in DOMAIN h : LowerStrip(h[j]) \in candidates
TwoColumnsWithYear(f) == Len(f.columns) = 2 /\ YearPos(f.columns) # 0
Ambiguous(f, candidates) ==
    /\ YearPos(f.columns) # 0
    /\ Len(f.columns) > 2
    /\ ~HasCandidate(f.columns, candidates)
IntegersStrictlyAscending(col) ==
    /\ \A r \in DOMAIN col : col[r].t = "int"
    /\ \A r, q \in DOMAIN col : r < q => col[r].v < col[q].v
\* The year fields of an input file (of its first year-like column).
FileYears(f) == [r \in DOMAIN f.rows |-> f.rows[r][YearPos(f.columns)]]
HoldsDateStrings(f) ==
    /\ YearPos(f.columns) # 0
    /\ \E r \in DOMAIN f.rows : FileYears(f)[r].t = "date"
    /\ \A r \in DOMAIN f.rows : FileYears(f)[r].t # "tzdate"
\* The (year, value) pairs of a normalised frame, in row order.
Pairs(df, value) ==
    [r \in DOMAIN df.rows |->
        <<df.rows[r][ColPos(df, "Year")],
          IF Positions(df, value) = {} THEN NaN
          ELSE df.rows[r][SetMin(Positions(df, value))]>>]

AllYearsGiven(f) == \A r \in DOMAIN f.rows : FileYears(f)[r].t = "num"

\* C1: a two-column file with a year-synonym column normalises to rows
\* whose years are integers, ascending and without duplicates, for the
\* history file and for the forecast file, whatever the order and the
\* repetition of the years in the file.  Stated for files that give a
\* number as the year of every row.
C1_SortedUniqueIntegerYears ==
    /\ (HistLoaded /\ TwoColumnsWithYear(histFile) /\ AllYearsGiven(histFile))
          => IntegersStrictlyAscending(Column(hist, "Year"))
    /\ (FcLoaded /\ TwoColumnsWithYear(fcFile) /\ AllYearsGiven(fcFile))
          => IntegersStrictlyAscending(Column(fc_df, "Year"))

\* C2: for both files, the year column is found exactly when some column's
\* trimmed lower-cased name is year, years, date, time or period, and the
\* schema error is raised exactly when none is.
C2_SameYearDetection ==
    /\ error = "ValueError: Could not find a Year column"
          => YearPos(histFile.columns) = 0
    /\ HistLoaded => YearPos(histFile.columns) # 0
    /\ error = "ValueError: Forecast CSV must contain a Year column"
          => YearPos(fcFile.columns) = 0
    /\ FcLoaded => YearPos(fcFile.columns) # 0

\* C3: a file with a year column, more than two columns and no value
\* synonym is rejected: no frame without the canonical value column is
\* returned, for the history file and for the forecast file.
C3_AmbiguousRejected ==
    /\ HistLoaded => /\ ~Ambiguous(histFile, value_candidates)
                     /\ Positions(hist, "Inflation_YoY") # {}
    /\ FcLoaded => /\ ~Ambiguous(fcFile, f_candidates)
                   /\ Positions(fc_df, "Forecast") # {}

\* A load that fails: a missing file, no year column or an ambiguous value
\* column, in the history file or (once it is read) in the forecast file.
LoadFails ==
    \/ ~histFile.exists
    \/ YearPos(histFile.columns) = 0
    \/ Ambiguous(histFile, value_candidates)
    \/ /\ pc # "load_csv"
       /\ \/ ~fcFile.exists
          \/ YearPos(fcFile.columns) = 0
          \/ Ambiguous(fcFile, f_candidates)

\* C4: when loading fails the render shows an error and halts; none of the
\* later steps (min/max year, merge, tagging, chart, tables, downloads)
\* runs in that render.
C4_LoadFailureHalts ==
    LoadFails => /\ pc \in {"load_csv", "load_forecast", "except", "stopped"}
                 /\ pc = "stopped" => "error" \in shown

\* C5: the merged view holds exactly the years of the history frame and of
\* the forecast frame, in ascending order (rows without a year last), and
\* each year once when each source has each year once.
C5_OuterJoinOnYear ==
    merged_df # NoFrame =>
        LET my == Column(merged_df, "Year")
            hy == Column(hist_df, "Year")
            fy == Column(fc_df, "Year")
        IN  /\ Range(my) = Range(hy) \cup Range(fy)
            /\ \A r, q \in DOMAIN my : r < q =>
                   /\ my[r].t = "nan" => my[q].t = "nan"
                   /\ (my[r].t = "int" /\ my[q].t = "int") => my[r].v <= my[q].v
            /\ (Unique(hy) /\ Unique(fy)) => Unique(my)

\* A merge of frames with unique years, one year shared, one year of the
\* forecast alone and one of the history alone or missing.
C5_Witness ==
    /\ merged_df # NoFrame
    /\ LET hy == Column(hist_df, "Year")
           fy == Column(fc_df, "Year")
       IN  /\ Unique(hy) /\ Unique(fy)
           /\ Range(hy) \cap Range(fy) # {}
           /\ Range(fy) \ Range(hy) # {}
           /\ Range(hy) \ Range(fy) # {}

Tagged == merged_df # NoFrame /\ Positions(merged_df, "Set") # {}

\* C6: every merged row carries one tag, "History" exactly when its year is
\* at most the largest history year, "Forecast" otherwise.
C6_TagByMaxHistoryYear ==
    Tagged =>
        /\ Cardinality(Positions(merged_df, "Set")) = 1
        /\ \A r \in DOMAIN merged_df.rows :
               LET year == merged_df.rows[r][ColPos(merged_df, "Year")]
                   tag == merged_df.rows[r][ColPos(merged_df, "Set")].t
                   top == SetMax(Numbers(Column(hist_df, "Year")))
               IN  /\ tag \in {"History", "Forecast"}
                   /\ tag = "History" <=> (year.t = "int" /\ year.v <= top)

\* A tagged merge with a forecast-only row at the largest history year or
\* before the history range (tagged "History") and a row tagged "Forecast".
C6_Witness ==
    /\ Tagged
    /\ \E r, q \in DOMAIN merged_df.rows :
          LET yp == ColPos(merged_df, "Year")
              sp == ColPos(merged_df, "Set")
          IN  /\ merged_df.rows[r][sp].t = "History"
              /\ merged_df.rows[r][yp].v = max_hist_year
              /\ merged_df.rows[r][yp] \in Range(Column(fc_df, "Year"))
              /\ merged_df.rows[q][sp].t = "Forecast"
              /\ merged_df.rows[q][yp].t = "int"

\* C7: normalising the downloaded CSV of a normalised frame succeeds and
\* gives the same (year, value) pairs, for history and forecast.  Stated
\* for frames whose years are all different, where the order of the rows
\* does not depend on how the sort arranges equal years.
C7_RoundTrip ==
    (/\ prev_hist # NoFrame
     /\ Unique(Column(prev_hist, "Year"))
     /\ Unique(Column(prev_fc, "Year"))) =>
        /\ pc \notin {"except", "stopped"}
        /\ HistLoaded => Pairs(hist, "Inflation_YoY") = Pairs(prev_hist, "Inflation_YoY")
        /\ FcLoaded => Pairs(fc_df, "Forecast") = Pairs(prev_fc, "Forecast")

\* C8: no row of a normalised frame has a missing year.
C8_NoMissingYear ==
    /\ HistLoaded => \A r \in DOMAIN hist.rows : Column(hist, "Year")[r].t # "nan"
    /\ FcLoaded => \A r \in DOMAIN fc_df.rows : Column(fc_df, "Year")[r].t # "nan"

\* C9: a year column of date strings comes out as numbers (the year of each
\* date), in the history frame and in the forecast frame.
C9_DatesBecomeYears ==
    /\ (HistLoaded /\ HoldsDateStrings(histFile)) => IsNumeric(Column(hist, "Year"))
    /\ (FcLoaded /\ HoldsDateStrings(fcFile)) => IsNumeric(Column(fc_df, "Year"))

\* C10: a normalised frame has one column named Year and at most one with
\* the canonical value name; with two columns and no value synonym the
\* non-year column is the value column.
C10_FirstMatchOnly ==
    /\ HistLoaded =>
          /\ Cardinality(Positions(hist, "Year")) = 1
          /\ Cardinality(Positions(hist, "Inflation_YoY")) <= 1
          /\ Len(histFile.columns) = 2 => Positions(hist, "Inflation_YoY") # {}
    /\ FcLoaded =>
          /\ Cardinality(Positions(fc_df, "Year")) = 1
          /\ Cardinality(Positions(fc_df, "Forecast")) <= 1
          /\ Len(fcFile.columns) = 2 => Positions(fc_df, "Forecast") # {}

====
